---- MODULE Spec2Model ----
(***************************************************************************)
(* Model of app_streamlit/app.py: the three cached loaders (province,      *)
(* station, climate), the hierarchical geo filter of main and the          *)
(* resample / group-by / mean aggregation and summary of show_timeseries.  *)
(*                                                                         *)
(* A frame is a sequence of rows; a row is a function from column names to *)
(* cells; a cell is <<v>> for a value v and <<>> for a missing value (NaN, *)
(* NaT, None).  Timestamps are proleptic Gregorian day ordinals.  Means    *)
(* are exact fractions <<numerator, denominator>> in lowest terms.         *)
(***************************************************************************)
EXTENDS Integers, Sequences, FiniteSets, TLC

\* ------------------------------------------------------------------------
\* Bounds of the model
\* ------------------------------------------------------------------------

\* largest number of rows of climate_data.csv in the aggregation inputs
MaxObs == 2

\* ------------------------------------------------------------------------
\* Cells
\* ------------------------------------------------------------------------

NaN == <<>>

Cell(v) == <<v>>

IsNull(c) == c = NaN

Val(c) == c[1]

\* elementwise == of a column with a scalar: NaN equals nothing
CellEq(c, d) == ~IsNull(c) /\ ~IsNull(d) /\ c = d

Range(s) == {s[i] : i \in DOMAIN s}

RECURSIVE SelectRows(_, _)
\* the sub-sequence of rows with indices in mask (boolean indexing, csv row choice)
SelectRows(df, mask) ==
    IF df = <<>> THEN <<>>
    ELSE LET n == Len(df)
             front == SelectRows(SubSeq(df, 1, n - 1), mask)
         IN IF n \in mask THEN Append(front, df[n]) ELSE front

\* ------------------------------------------------------------------------
\* Calendar
\* ------------------------------------------------------------------------

IsLeap(y) == (y % 4 = 0 /\ y % 100 # 0) \/ y % 400 = 0

DaysInMonth(y, m) ==
    IF m = 2 THEN (IF IsLeap(y) THEN 29 ELSE 28)
    ELSE IF m \in {4, 6, 9, 11} THEN 30 ELSE 31

DaysBeforeYear(y) ==
    (y - 1) * 365 + ((y - 1) \div 4) - ((y - 1) \div 100) + ((y - 1) \div 400)

RECURSIVE DaysBeforeMonth(_, _)
DaysBeforeMonth(y, m) ==
    IF m = 1 THEN 0 ELSE DaysBeforeMonth(y, m - 1) + DaysInMonth(y, m - 1)

\* day ordinal of the calendar date y-m-d
Ordinal(y, m, d) == DaysBeforeYear(y) + DaysBeforeMonth(y, m) + d

\* Monday = 0 ... Sunday = 6
Weekday(n) == (n + 6) % 7

Years == 2019 .. 2021

YearOf(n) == CHOOSE y \in Years : DaysBeforeYear(y) < n /\ n <= DaysBeforeYear(y + 1)

MonthOf(n) ==
    LET y == YearOf(n)
        k == n - DaysBeforeYear(y)
    IN CHOOSE m \in 1 .. 12 :
          DaysBeforeMonth(y, m) < k /\ k <= DaysBeforeMonth(y, m) + DaysInMonth(y, m)

DayOf(n) == n - DaysBeforeYear(YearOf(n)) - DaysBeforeMonth(YearOf(n), MonthOf(n))

\* ------------------------------------------------------------------------
\* Exact arithmetic for means
\* ------------------------------------------------------------------------

RECURSIVE Gcd(_, _)
Gcd(a, b) == IF b = 0 THEN a ELSE Gcd(b, a % b)

Abs(a) == IF a < 0 THEN 0 - a ELSE a

\* n / d in lowest terms, d > 0
Frac(n, d) == LET g == Gcd(Abs(n), d) IN <<n \div g, d \div g>>

FracAdd(p, q) == Frac(p[1] * q[2] + q[1] * p[2], p[2] * q[2])

FracLess(p, q) == p[1] * q[2] < q[1] * p[2]

RECURSIVE FracSum(_)
FracSum(s) == IF s = <<>> THEN <<0, 1>> ELSE FracAdd(s[1], FracSum(Tail(s)))

\* ------------------------------------------------------------------------
\* pandas / numpy operations used by the application
\* ------------------------------------------------------------------------

\* two's-complement wrap of an integer to a signed type of the given width
WrapInt(v, bits) == ((v + 2 ^ (bits - 1)) % (2 ^ bits)) - 2 ^ (bits - 1)

\* DataFrame.astype(dict(col = "int<bits>")): the integer columns named in
\* dtypes are narrowed; the float16 columns keep the modelled values, which
\* are integers of magnitude below 2048 and so exact in float16
AsType(df, dtypes) ==
    [i \in DOMAIN df |->
        [c \in DOMAIN df[i] |->
            IF c \in DOMAIN dtypes /\ ~IsNull(df[i][c])
            THEN Cell(WrapInt(Val(df[i][c]), dtypes[c]))
            ELSE df[i][c]]]

\* pd.to_datetime(column, dayfirst=True) of a DD/MM/YYYY text, given as its
\* three fields in the order they are written
ToDatetime(c) == IF IsNull(c) THEN NaN ELSE Cell(Ordinal(Val(c)[3], Val(c)[2], Val(c)[1]))

RECURSIVE Flatten(_)
Flatten(ss) == IF ss = <<>> THEN <<>> ELSE Head(ss) \o Flatten(Tail(ss))

\* an inner join: left rows without a match are dropped
MergeInner(left, right, on, rightColumns) ==
    Flatten([i \in DOMAIN left |->
        LET Matches(r) == CellEq(r[on], left[i][on])
            found == SelectSeq(right, Matches)
        IN [j \in DOMAIN found |-> left[i] @@ found[j]]])

\* pd.merge(left, right, on=on, how="left")
Merge(left, right, on, rightColumns) ==
    Flatten([i \in DOMAIN left |->
        LET Matches(r) == CellEq(r[on], left[i][on])
            found == SelectSeq(right, Matches)
        IN IF found = <<>>
           THEN <<left[i] @@ [c \in rightColumns \ {on} |-> NaN]>>
           ELSE [j \in DOMAIN found |-> left[i] @@ found[j]]])

\* a comparison that looks at the first sort column only
KeyLessFirstColumn(a, b, by) ==
    /\ by # <<>>
    /\ ~IsNull(a[Head(by)])
    /\ (IsNull(b[Head(by)]) \/ Val(a[Head(by)]) < Val(b[Head(by)]))

RECURSIVE KeyLess(_, _, _)
\* row a sorts strictly before row b on the columns by; NaN sorts last
KeyLess(a, b, by) ==
    IF by = <<>> THEN FALSE
    ELSE LET c == Head(by)
         IN IF a[c] = b[c] THEN KeyLess(a, b, Tail(by))
            ELSE IF IsNull(a[c]) THEN FALSE
            ELSE IF IsNull(b[c]) THEN TRUE
            ELSE Val(a[c]) < Val(b[c])

RECURSIVE SortValues(_, _)
\* DataFrame.sort_values(by=by): ascending, stable, NaN last
SortValues(df, by) ==
    IF df = <<>> THEN <<>>
    ELSE LET n == Len(df)
             front == SortValues(SubSeq(df, 1, n - 1), by)
             k == Cardinality({i \in DOMAIN front : ~KeyLess(df[n], front[i], by)})
         IN SubSeq(front, 1, k) \o <<df[n]>> \o SubSeq(front, k + 1, n - 1)

\* ------------------------------------------------------------------------
\* Contents of the data directory
\* ------------------------------------------------------------------------

ProvinceColumns == {"province_id", "province_name"}

StationColumns == {"station_id", "station_name", "region_name", "region_id", "province_id"}

\* rows that data/province_detail.csv may hold, in file order
ProvinceRows ==
    << [province_id |-> Cell(2), province_name |-> Cell("Bali")],
       [province_id |-> Cell(1), province_name |-> Cell("Aceh")] >>

\* rows that data/station_detail.csv may hold, in file order
StationRows ==
    << [station_id |-> Cell(97230), station_name |-> Cell("Ngurah Rai"),
        region_name |-> Cell("Badung"), region_id |-> Cell(3), province_id |-> Cell(2)],
       [station_id |-> Cell(96009), station_name |-> Cell("Malikussaleh"),
        region_name |-> Cell("Aceh Utara"), region_id |-> Cell(2), province_id |-> Cell(1)],
       [station_id |-> Cell(96001), station_name |-> Cell("Maimun Saleh"),
        region_name |-> Cell("Sabang"), region_id |-> Cell(1), province_id |-> Cell(1)] >>

\* rows that data/climate_data.csv may hold, in file order; station 96015
\* is in no station file
ClimateRows ==
    << [station_id |-> Cell(96009), date |-> Cell(<<20, 1, 2020>>), Tavg |-> Cell(14)],
       [station_id |-> Cell(96001), date |-> Cell(<<5, 1, 2020>>), Tavg |-> Cell(10)],
       [station_id |-> Cell(96001), date |-> Cell(<<20, 1, 2020>>), Tavg |-> NaN],
       [station_id |-> Cell(97230), date |-> Cell(<<31, 12, 2019>>), Tavg |-> Cell(20)],
       [station_id |-> Cell(96015), date |-> Cell(<<5, 1, 2020>>), Tavg |-> Cell(10)] >>

\* the strings of the data in the order Python compares them
SortedNames ==
    <<"Aceh", "Aceh Utara", "Badung", "Bali", "Maimun Saleh", "Malikussaleh",
      "Ngurah Rai", "Sabang">>

NameRank(s) == CHOOSE i \in DOMAIN SortedNames : SortedNames[i] = s

\* file sets with every choice of province and station rows and the climate
\* file with all rows: rows of every station and of the unknown station
JoinInputs ==
    [p : SUBSET DOMAIN ProvinceRows,
     s : (SUBSET DOMAIN StationRows) \ {{}},
     c : {DOMAIN ClimateRows}]

\* file sets with every province and station row and every choice of at
\* least one and at most MaxObs climate rows
AggregationInputs ==
    [p : {DOMAIN ProvinceRows},
     s : {DOMAIN StationRows},
     c : {m \in SUBSET DOMAIN ClimateRows : 1 <= Cardinality(m) /\ Cardinality(m) <= MaxObs}]

Inputs == JoinInputs \cup AggregationInputs

\* ------------------------------------------------------------------------
\* State
\* ------------------------------------------------------------------------

VARIABLES
    files,      \* the three csv files: province, station, climate
    cache,      \* st.cache of the three loaders: <<>> or <<frame>>
    pc,         \* position of the script run: "idle", "timeseries" or "done"
    error,      \* exception that ended the last run, or "none"
    selection,  \* selectbox values of main: province, region, station
    options,    \* options the three selectboxes of main offered
    stations,   \* station ids of the narrowed station frame
    df,         \* frame handed to show_timeseries
    request,    \* selectbox values of show_timeseries: var, resample, groupby
    data,       \* the aggregated series
    summary     \* contents of the Dataset Summary expander

vars == <<files, cache, pc, error, selection, options, stations, df, request, data, summary>>

\* a selectbox left at None
None == <<>>

Unset == <<>>

NoSelection == [province |-> None, region |-> None, station |-> None]

NoOptions == [province |-> <<>>, region |-> <<>>, station |-> <<>>]

NoRequest == [var |-> None, resample |-> None, groupby |-> None]

NoSummary == <<>>

\* ------------------------------------------------------------------------
\* The cached loaders
\* ------------------------------------------------------------------------

GetProvinceDetail(csv) ==
    SortValues(AsType(csv, [province_id |-> 8]), <<"province_id">>)

GetStationDetail(csv, province_detail) ==
    LET typed == AsType(csv, [province_id |-> 8, region_id |-> 16, station_id |-> 16])
        merged == Merge(typed, province_detail, "province_id", ProvinceColumns)
    IN SortValues(merged, <<"province_id", "region_id", "station_id">>)

GetClimateData(csv, station_detail) ==
    LET typed == AsType(csv, [station_id |-> 16])
        dated == [i \in DOMAIN typed |-> [typed[i] EXCEPT !.date = ToDatetime(@)]]
        merged == Merge(dated, station_detail, "station_id",
                        StationColumns \cup ProvinceColumns)
    IN SortValues(merged, <<"province_id", "region_id", "station_id", "date">>)

Init ==
    /\ \E in \in Inputs :
          files = [province |-> SelectRows(ProvinceRows, in.p),
                   station |-> SelectRows(StationRows, in.s),
                   climate |-> SelectRows(ClimateRows, in.c)]
    /\ cache = [province |-> Unset, station |-> Unset, climate |-> Unset]
    /\ pc = "idle"
    /\ error = "none"
    /\ selection = NoSelection
    /\ options = NoOptions
    /\ stations = {}
    /\ df = <<>>
    /\ request = NoRequest
    /\ data = <<>>
    /\ summary = NoSummary

get_province_detail ==
    /\ cache.province = Unset
    /\ cache' = [cache EXCEPT !.province = <<GetProvinceDetail(files.province)>>]
    /\ UNCHANGED <<files, pc, error, selection, options, stations, df, request, data, summary>>

get_station_detail ==
    /\ cache.province # Unset
    /\ cache.station = Unset
    /\ cache' = [cache EXCEPT !.station = <<GetStationDetail(files.station, cache.province[1])>>]
    /\ UNCHANGED <<files, pc, error, selection, options, stations, df, request, data, summary>>

get_climate_data ==
    /\ cache.station # Unset
    /\ cache.climate = Unset
    /\ cache' = [cache EXCEPT !.climate = <<GetClimateData(files.climate, cache.station[1])>>]
    /\ UNCHANGED <<files, pc, error, selection, options, stations, df, request, data, summary>>

\* ------------------------------------------------------------------------
\* main: the geo filter
\* ------------------------------------------------------------------------

\* Series.unique(): the distinct cells of a column
Unique(frame, col) == {frame[i][col] : i \in DOMAIN frame}

\* np.sort of an object array compares its elements with <, which raises
\* TypeError between a float NaN and a str
SortRaises(cells) == NaN \in cells /\ Cardinality(cells) > 1

RECURSIVE SortCells(_)
\* np.sort of name cells that can be compared
SortCells(cells) ==
    IF cells = {} THEN <<>>
    ELSE LET least == CHOOSE c \in cells :
                         \A d \in cells : IsNull(c) \/ NameRank(Val(c)) <= NameRank(Val(d))
         IN <<least>> \o SortCells(cells \ {least})

\* [None, *np.sort(frame[col].unique())]
SelectboxOptions(frame, col) ==
    <<None>> \o [i \in 1 .. Cardinality(Unique(frame, col)) |-> <<SortCells(Unique(frame, col))[i]>>]

\* frame[frame[col] == choice[1]] when a choice was made
Narrow(frame, col, choice) ==
    IF choice = None THEN frame
    ELSE LET Keep(r) == CellEq(r[col], choice[1]) IN SelectSeq(frame, Keep)

\* climate_data_df[climate_data_df.station_id.isin(stations)]
IsIn(frame, ids) ==
    LET Keep(r) == ~IsNull(r.station_id) /\ Val(r.station_id) \in ids IN SelectSeq(frame, Keep)

Layouts == {"Explore Timeseries", "Model Timeseries"}

\* every value a selectbox of main can take on some station frame
NameChoices(col) ==
    LET rows == {r \in Range(StationRows) \cup Range(ProvinceRows) : col \in DOMAIN r}
    IN {None} \cup {<<c>> : c \in {NaN} \cup {r[col] : r \in rows}}

main ==
    /\ pc = "idle"
    /\ cache.climate # Unset
    /\ \E layout \in Layouts :
       \E province \in NameChoices("province_name"),
          region \in NameChoices("region_name"),
          station \in NameChoices("station_name") :
          LET climate_data_df == cache.climate[1]
              sd0 == cache.station[1]
              ok1 == ~SortRaises(Unique(sd0, "province_name"))
              sd1 == Narrow(sd0, "province_name", province)
              ok2 == ok1 /\ ~SortRaises(Unique(sd1, "region_name"))
              sd2 == Narrow(sd1, "region_name", region)
              ok3 == ok2 /\ ~SortRaises(Unique(sd2, "station_name"))
              sd3 == Narrow(sd2, "station_name", station)
              ids == {Val(sd3[i].station_id) : i \in DOMAIN sd3}
          IN /\ IF ok1 THEN province \in Range(SelectboxOptions(sd0, "province_name"))
                       ELSE province = None
             /\ IF ok2 THEN region \in Range(SelectboxOptions(sd1, "region_name"))
                       ELSE region = None
             /\ IF ok3 THEN station \in Range(SelectboxOptions(sd2, "station_name"))
                       ELSE station = None
             /\ selection' = [province |-> province, region |-> region, station |-> station]
             /\ options' =
                   [province |-> IF ok1 THEN SelectboxOptions(sd0, "province_name") ELSE <<>>,
                    region |-> IF ok2 THEN SelectboxOptions(sd1, "region_name") ELSE <<>>,
                    station |-> IF ok3 THEN SelectboxOptions(sd2, "station_name") ELSE <<>>]
             /\ IF ok3
                THEN /\ stations' = ids
                     /\ df' = (IF layout \in {"Explore Timeseries"} \/ layout \in {"Model Timeseries"}
                               THEN IsIn(climate_data_df, ids) ELSE <<>>)
                     /\ error' = "none"
                     /\ pc' = "timeseries"
                ELSE /\ stations' = {}
                     /\ df' = <<>>
                     /\ error' = "TypeError"
                     /\ pc' = "done"
    /\ request' = NoRequest
    /\ data' = <<>>
    /\ summary' = NoSummary
    /\ UNCHANGED <<files, cache>>

\* ------------------------------------------------------------------------
\* show_timeseries: aggregation, plot and summary
\* ------------------------------------------------------------------------

\* the entries of LABELS for the modelled columns
LABELS ==
    [Tavg |-> "avg temperature (°C)", station_name |-> "Station",
     region_name |-> "Region", province_name |-> "Province"]

NewName(c) == IF c \in DOMAIN LABELS THEN LABELS[c] ELSE c

\* DataFrame.rename(columns=LABELS); set_index("date") keeps the date of a
\* row under "date" and takes it out of the columns
Rename(frame) ==
    [i \in DOMAIN frame |->
        [n \in {NewName(c) : c \in DOMAIN frame[i]} |->
            frame[i][CHOOSE c \in DOMAIN frame[i] : NewName(c) = n]]]

\* df.columns after rename and set_index
FrameColumns ==
    {NewName(c) : c \in {"station_id", "Tavg"} \cup StationColumns \cup ProvinceColumns}

\* the columns mean(numeric_only=True) keeps
NumericColumns == {"station_id", "region_id", "province_id", "avg temperature (°C)"}

\* a selectbox holds None or <<option>>
Resamples == {None} \cup {<<r>> : r \in {"Daily", "Weekly", "Monthly", "Quarterly", "Annually"}}

Groupbys == {None} \cup {<<g>> : g \in {"Province", "Region", "Station"}}

Modes == {"lines", "markers"}

\* resample[0], the offset alias
Rule(resample) ==
    CASE resample[1] = "Daily" -> "D"
      [] resample[1] = "Weekly" -> "W"
      [] resample[1] = "Monthly" -> "M"
      [] resample[1] = "Quarterly" -> "Q"
      [] resample[1] = "Annually" -> "A"

\* bin labels with the weeks anchored on Saturday instead of Sunday
BinLabelSaturday(rule, n) ==
    CASE rule = "D" -> n
      [] rule = "W" -> n + ((5 - Weekday(n)) % 7)
      [] rule = "M" -> Ordinal(YearOf(n), MonthOf(n), DaysInMonth(YearOf(n), MonthOf(n)))
      [] rule = "Q" -> LET q == 3 * ((MonthOf(n) - 1) \div 3) + 3
                       IN Ordinal(YearOf(n), q, DaysInMonth(YearOf(n), q))
      [] rule = "A" -> Ordinal(YearOf(n), 12, 31)

\* the label pandas gives the bin of day n: bins are closed and labelled on
\* their right edge for W (weeks ending Sunday), M, Q and A (period ends)
BinLabel(rule, n) ==
    CASE rule = "D" -> n
      [] rule = "W" -> n + (6 - Weekday(n))
      [] rule = "M" -> Ordinal(YearOf(n), MonthOf(n), DaysInMonth(YearOf(n), MonthOf(n)))
      [] rule = "Q" -> LET q == 3 * ((MonthOf(n) - 1) \div 3) + 3
                       IN Ordinal(YearOf(n), q, DaysInMonth(YearOf(n), q))
      [] rule = "A" -> Ordinal(YearOf(n), 12, 31)

RECURSIVE BinRange(_, _, _)
\* the labels of all bins from the one labelled lo to the one labelled hi
BinRange(rule, lo, hi) ==
    IF lo > hi THEN <<>> ELSE <<lo>> \o BinRange(rule, BinLabel(rule, lo + 1), hi)

RECURSIVE SortInts(_)
SortInts(s) ==
    IF s = {} THEN <<>>
    ELSE LET least == CHOOSE x \in s : \A y \in s : x <= y
         IN <<least>> \o SortInts(s \ {least})

RECURSIVE SortNames(_)
SortNames(s) ==
    IF s = {} THEN <<>>
    ELSE LET least == CHOOSE x \in s : \A y \in s : NameRank(x) <= NameRank(y)
         IN <<least>> \o SortNames(s \ {least})

RECURSIVE SumCells(_, _)
SumCells(rows, col) ==
    IF rows = <<>> THEN 0
    ELSE (IF IsNull(Head(rows)[col]) THEN 0 ELSE Val(Head(rows)[col])) + SumCells(Tail(rows), col)

CountCells(rows, col) == Cardinality({i \in DOMAIN rows : ~IsNull(rows[i][col])})

\* a mean that counts a missing value as a zero
MeanCountingMissing(rows, col) ==
    IF rows = <<>> THEN NaN ELSE Cell(Frac(SumCells(rows, col), Len(rows)))

\* mean of one column over the rows of a cell, skipping missing values
\* (skipna)
Mean(rows, col) ==
    IF CountCells(rows, col) = 0 THEN NaN
    ELSE Cell(Frac(SumCells(rows, col), CountCells(rows, col)))

\* mean(numeric_only=True) of the rows of one cell
MeanRow(rows) == [c \in NumericColumns |-> Mean(rows, c)]

DatesOf(frame) == {Val(frame[i].date) : i \in DOMAIN frame}

\* the groups of DataFrame.groupby(col): rows with a missing key are left out
GroupKeys(frame, col) == {Val(frame[i][col]) : i \in {j \in DOMAIN frame : ~IsNull(frame[j][col])}}

RowsOfGroup(frame, col, g) == LET Keep(r) == r[col] = Cell(g) IN SelectSeq(frame, Keep)

RowsOnDate(frame, d) == LET Keep(r) == Val(r.date) = d IN SelectSeq(frame, Keep)

RowsInBin(frame, rule, b) == LET Keep(r) == BinLabel(rule, Val(r.date)) = b IN SelectSeq(frame, Keep)

\* df.groupby("date").mean(numeric_only=True) with the date column added
GroupbyDate(frame) ==
    LET ds == SortInts(DatesOf(frame))
    IN [i \in DOMAIN ds |-> MeanRow(RowsOnDate(frame, ds[i])) @@ [date |-> Cell(ds[i])]]

\* a resample that emits the occupied bins only
ResampleOccupied(frame, rule) ==
    LET bins == SortInts({BinLabel(rule, d) : d \in DatesOf(frame)})
    IN [i \in DOMAIN bins |-> MeanRow(RowsInBin(frame, rule, bins[i])) @@ [date |-> Cell(bins[i])]]

\* df.resample(rule).mean(numeric_only=True) with the date column added:
\* one row per bin from the first to the last occupied bin
Resample(frame, rule) ==
    IF frame = <<>> THEN <<>>
    ELSE LET lo == CHOOSE d \in DatesOf(frame) : \A e \in DatesOf(frame) : d <= e
             hi == CHOOSE d \in DatesOf(frame) : \A e \in DatesOf(frame) : d >= e
             bins == BinRange(rule, BinLabel(rule, lo), BinLabel(rule, hi))
         IN [i \in DOMAIN bins |-> MeanRow(RowsInBin(frame, rule, bins[i])) @@ [date |-> Cell(bins[i])]]

\* the series of an ungrouped frame: groupby("date") when no resample
\* period is chosen, resample(resample[0]) otherwise
Series(frame, resample) ==
    IF resample = None THEN GroupbyDate(frame) ELSE Resample(frame, Rule(resample))

\* the series of the per-group frames of a groupby, in key order, each with
\* its key column
PerGroup(frame, groupby, resample) ==
    LET gs == SortNames(GroupKeys(frame, groupby))
    IN Flatten([k \in DOMAIN gs |->
          LET part == Series(RowsOfGroup(frame, groupby, gs[k]), resample)
          IN [i \in DOMAIN part |-> part[i] @@ (groupby :> Cell(gs[k]))]])

\* lines 135-151: the four branches and the reset_index
Aggregate(frame, resample, groupby) ==
    IF groupby = None THEN Series(frame, resample)
    ELSE PerGroup(frame, groupby[1], resample)

\* data.columns
DataColumns(groupby) ==
    NumericColumns \cup {"date"} \cup (IF groupby = None THEN {} ELSE {groupby[1]})

\* px.line / px.scatter raise ValueError when y names no column of the frame
PlotRaises(var, groupby) == var \notin DataColumns(groupby)

RECURSIVE FracSeq(_, _)
\* the values present in one column of the series
FracSeq(rows, col) ==
    IF rows = <<>> THEN <<>>
    ELSE (IF IsNull(Head(rows)[col]) THEN <<>> ELSE <<Val(Head(rows)[col])>>)
         \o FracSeq(Tail(rows), col)

\* Series.describe() of one column: count, mean, min and max of the values
\* present (the deviation and the quartiles are further functions of the
\* same values)
DescribeColumn(rows, col) ==
    LET vs == FracSeq(rows, col)
        n == Len(vs)
        total == FracSum(vs)
    IN [count |-> n,
        mean |-> IF n = 0 THEN NaN ELSE Cell(Frac(total[1], total[2] * n)),
        min |-> IF n = 0 THEN NaN
                ELSE Cell(CHOOSE v \in Range(vs) : \A w \in Range(vs) : ~FracLess(w, v)),
        max |-> IF n = 0 THEN NaN
                ELSE Cell(CHOOSE v \in Range(vs) : \A w \in Range(vs) : ~FracLess(v, w))]

\* DataFrame.describe(): one statistic set per numeric column over all rows
Describe(rows) == [c \in NumericColumns |-> DescribeColumn(rows, c)]

\* lines 166-170: set_index(groupby) moves the key column into the index
\* and describe() then reduces all rows together
DatasetSummary(rows, groupby) ==
    IF groupby = None THEN <<Describe(rows)>> ELSE <<Describe(rows)>>

show_timeseries ==
    /\ pc = "timeseries"
    /\ \E resample \in Resamples, groupby \in Groupbys :
       \E series \in {Aggregate(Rename(df), resample, groupby)} :
       \E described \in {DatasetSummary(series, groupby)} :
       \E var \in FrameColumns, mode \in Modes :
          LET raises == IF "lines" = mode THEN PlotRaises(var, groupby)
                                          ELSE PlotRaises(var, groupby)
          IN /\ request' = [var |-> <<var>>, resample |-> resample, groupby |-> groupby]
             /\ data' = series
             /\ error' = IF raises THEN "ValueError" ELSE "none"
             /\ summary' = IF raises THEN NoSummary ELSE described
    /\ pc' = "done"
    /\ UNCHANGED <<files, cache, selection, options, stations, df>>

\* a widget interaction: the script runs again from the top, with the
\* loaders' results still cached
rerun ==
    /\ pc = "done"
    /\ pc' = "idle"
    /\ error' = "none"
    /\ selection' = NoSelection
    /\ options' = NoOptions
    /\ stations' = {}
    /\ df' = <<>>
    /\ request' = NoRequest
    /\ data' = <<>>
    /\ summary' = NoSummary
    /\ UNCHANGED <<files, cache>>

Next ==
    \/ get_province_detail
    \/ get_station_detail
    \/ get_climate_data
    \/ main
    \/ show_timeseries
    \/ rerun

Spec == Init /\ [][Next]_vars

\* ------------------------------------------------------------------------
\* Vocabulary of the properties
\* ------------------------------------------------------------------------

Loaded == cache.climate # Unset

\* show_timeseries has aggregated the frame it was handed
Aggregated == pc = "done" /\ request # NoRequest

\* the frame show_timeseries works on
Frame == Rename(df)

Tavg == "avg temperature (°C)"

\* the group label of a frame row under the requested grouping
LabelOf(r) == IF request.groupby = None THEN None ELSE r[request.groupby[1]]

\* the group label of a row of the series
KeyOf(row) == IF request.groupby = None THEN None ELSE row[request.groupby[1]]

\* the frame rows a grouped aggregation can place: those with a label
Placed(r) == request.groupby = None \/ ~IsNull(LabelOf(r))

\* d is the last day of its week (a Sunday), month, quarter or year
IsPeriodEnd(resample, d) ==
    CASE resample = <<"Daily">> -> TRUE
      [] resample = <<"Weekly">> -> Weekday(d) = 6
      [] resample = <<"Monthly">> -> DayOf(d) = DaysInMonth(YearOf(d), MonthOf(d))
      [] resample = <<"Quarterly">> ->
            MonthOf(d) \in {3, 6, 9, 12} /\ DayOf(d) = DaysInMonth(YearOf(d), MonthOf(d))
      [] resample = <<"Annually">> -> MonthOf(d) = 12 /\ DayOf(d) = 31

\* d is the first day of its ISO week (a Monday), month, quarter or year
IsPeriodStart(resample, d) ==
    CASE resample = <<"Daily">> -> TRUE
      [] resample = <<"Weekly">> -> Weekday(d) = 0
      [] resample = <<"Monthly">> -> DayOf(d) = 1
      [] resample = <<"Quarterly">> -> MonthOf(d) \in {1, 4, 7, 10} /\ DayOf(d) = 1
      [] resample = <<"Annually">> -> MonthOf(d) = 1 /\ DayOf(d) = 1

\* days d and e lie in the same period
SamePeriod(resample, d, e) ==
    CASE resample = <<"Daily">> -> d = e
      [] resample = <<"Weekly">> -> d - Weekday(d) = e - Weekday(e)
      [] resample = <<"Monthly">> -> YearOf(d) = YearOf(e) /\ MonthOf(d) = MonthOf(e)
      [] resample = <<"Quarterly">> ->
            YearOf(d) = YearOf(e) /\ (MonthOf(d) - 1) \div 3 = (MonthOf(e) - 1) \div 3
      [] resample = <<"Annually">> -> YearOf(d) = YearOf(e)

\* frame row r has the group and the date or period of the series row
InCell(r, row) ==
    /\ LabelOf(r) = KeyOf(row)
    /\ IF request.resample = None THEN r.date = row.date
       ELSE SamePeriod(request.resample, Val(r.date), Val(row.date))

\* the frame rows folded into a row of the series
CellRows(row) == LET frame == Frame IN {i \in DOMAIN frame : InCell(frame[i], row)}

\* ------------------------------------------------------------------------
\* Hierarchy join
\* ------------------------------------------------------------------------

\* the province rows a station row refers to
ProvincesOf(s) ==
    {p \in Range(files.province) :
        WrapInt(Val(p.province_id), 8) = WrapInt(Val(s.province_id), 8)}

\* the station rows a climate row refers to
StationsOf(o) ==
    {t \in Range(files.station) :
        WrapInt(Val(t.station_id), 16) = WrapInt(Val(o.station_id), 16)}

\* the province name the join gives station row s
ProvinceNameOf(s) ==
    LET ps == ProvincesOf(s)
    IN IF ps = {} THEN NaN ELSE (CHOOSE p \in ps : TRUE).province_name

\* the rows of the station frame that come from station row s
StationImages(s) ==
    LET frame == cache.station[1]
        name == ProvinceNameOf(s)
    IN {j \in DOMAIN frame :
           /\ frame[j].station_id = Cell(WrapInt(Val(s.station_id), 16))
           /\ frame[j].station_name = s.station_name
           /\ frame[j].region_name = s.region_name
           /\ frame[j].province_name = name}

\* the rows of the climate frame that come from climate row o
ClimateImages(o) ==
    LET frame == cache.climate[1]
        ts == StationsOf(o)
        t == CHOOSE t \in ts : TRUE
        name == ProvinceNameOf(t)
        day == Cell(Ordinal(Val(o.date)[3], Val(o.date)[2], Val(o.date)[1]))
    IN {j \in DOMAIN frame :
           /\ frame[j].station_id = Cell(WrapInt(Val(o.station_id), 16))
           /\ frame[j].date = day
           /\ frame[j].Tavg = o.Tavg
           /\ IF ts = {}
              THEN \A c \in (StationColumns \cup ProvinceColumns) \ {"station_id"} :
                      frame[j][c] = NaN
              ELSE /\ frame[j].station_name = t.station_name
                   /\ frame[j].region_name = t.region_name
                   /\ frame[j].region_id = Cell(WrapInt(Val(t.region_id), 16))
                   /\ frame[j].province_id = Cell(WrapInt(Val(t.province_id), 8))
                   /\ frame[j].province_name = name}

\* the files are unique by their keys
UniqueKeys ==
    /\ \A i, j \in DOMAIN files.station :
          files.station[i].station_id = files.station[j].station_id => i = j
    /\ \A i, j \in DOMAIN files.province :
          files.province[i].province_id = files.province[j].province_id => i = j

CellBefore(a, b) == ~IsNull(a) /\ (IsNull(b) \/ Val(a) < Val(b))

\* row a does not come after row b in (province_id, region_id, station_id, date)
KeyOrdered(a, b) ==
    \/ CellBefore(a.province_id, b.province_id)
    \/ /\ a.province_id = b.province_id
       /\ \/ CellBefore(a.region_id, b.region_id)
          \/ /\ a.region_id = b.region_id
             /\ \/ CellBefore(a.station_id, b.station_id)
                \/ /\ a.station_id = b.station_id
                   /\ (a.date = b.date \/ CellBefore(a.date, b.date))

\* C7: the climate frame is non-decreasing in the key (province_id,
\* region_id, station_id, date), rows with a missing key component coming
\* after all rows that have one.
JoinedOrder ==
    Loaded =>
       \A i, j \in DOMAIN cache.climate[1] :
          i < j => KeyOrdered(cache.climate[1][i], cache.climate[1][j])

\* the climate frame is built from a file whose rows had to be reordered
\* and ends with the rows of the unknown station
JoinedOrderWitness ==
    /\ Loaded
    /\ Len(cache.climate[1]) >= 3
    /\ IsNull(cache.climate[1][Len(cache.climate[1])].province_id)
    /\ ~IsNull(cache.climate[1][1].province_id)
    /\ \E i \in DOMAIN files.climate :
          cache.climate[1][i].station_id # Cell(WrapInt(Val(files.climate[i].station_id), 16))

\* ------------------------------------------------------------------------
\* Geo filter
\* ------------------------------------------------------------------------

\* C5: with no province, region or station selected the geo filter is the
\* identity: show_timeseries is handed the whole climate frame, rows of
\* unknown stations included.
GeoFilterIdentity ==
    (pc = "timeseries" /\ selection = NoSelection) => df = cache.climate[1]

LevelColumn(level) ==
    CASE level = "province" -> "province_name"
      [] level = "region" -> "region_name"
      [] level = "station" -> "station_name"

\* station row s carries the name chosen at every one of the levels
MatchesChoices(s, levels) ==
    \A l \in levels : selection[l] = None \/ s[LevelColumn(l)] = selection[l][1]

\* None and the distinct names of the stations that match the higher levels
NamesOffered(level, higher) ==
    {None} \cup {<<s[LevelColumn(level)]>> :
                    s \in {t \in Range(cache.station[1]) : MatchesChoices(t, higher)}}

\* the climate rows of the stations that match every choice
RowsOfMatchingStations ==
    LET Keep(r) == \E t \in Range(cache.station[1]) :
                      /\ MatchesChoices(t, {"province", "region", "station"})
                      /\ t.station_id = r.station_id
    IN SelectSeq(cache.climate[1], Keep)

\* C10: after the selectors are set in the order province, region, station,
\* each level offered exactly the distinct names of the stations matching
\* the choices above it, and show_timeseries is handed exactly the climate
\* rows of the stations matching every choice; levels left at None do not
\* narrow the set.
HierarchicalGeoFilter ==
    pc = "timeseries" =>
       /\ Range(options.province) = NamesOffered("province", {})
       /\ Range(options.region) = NamesOffered("region", {"province"})
       /\ Range(options.station) = NamesOffered("station", {"province", "region"})
       /\ df = RowsOfMatchingStations

\* ------------------------------------------------------------------------
\* Temporal aggregation
\* ------------------------------------------------------------------------

Unsampled == request.resample \in {None, <<"Daily">>}

\* the series for resample=None and for resample="Daily" of the request's
\* frame and grouping; the requested one is the series the run produced
NoneSeries ==
    IF request.resample = None THEN data ELSE Aggregate(Frame, None, request.groupby)

DailySeries ==
    IF request.resample = <<"Daily">> THEN data
    ELSE Aggregate(Frame, <<"Daily">>, request.groupby)

\* the dates on which the group with the given label has an observation
DatesOfLabel(label) ==
    LET frame == Frame
    IN {Val(frame[i].date) :
           i \in {j \in DOMAIN frame : Placed(frame[j]) /\ LabelOf(frame[j]) = label}}

Labels ==
    LET frame == Frame
    IN {LabelOf(frame[i]) : i \in {j \in DOMAIN frame : Placed(frame[j])}}

\* the days without an observation between two observations of a group
GapDays(label) ==
    LET dates == DatesOfLabel(label)
    IN UNION {{d \in (lo + 1) .. (hi - 1) : d \notin dates} : lo \in dates, hi \in dates}

RECURSIVE SumOver(_, _, _)
\* the sum of column c over the rows of frame with indices in js
SumOver(frame, js, c) ==
    IF js = {} THEN 0
    ELSE LET j == CHOOSE k \in js : TRUE IN Val(frame[j][c]) + SumOver(frame, js \ {j}, c)

\* every row of the series carries, for each variable, the mean of the
\* values of the frame rows of its group and period
RowsHoldPeriodMeans ==
    LET frame == Frame
    IN \A i \in DOMAIN data :
          LET rows == CellRows(data[i])
          IN \A c \in NumericColumns :
                LET js == {j \in rows : ~IsNull(frame[j][c])}
                IN data[i][c] = (IF js = {} THEN NaN
                                 ELSE Cell(Frac(SumOver(frame, js, c), Cardinality(js))))

\* every frame row that can be placed lies in the period of exactly one row
\* of its group
EveryRowInOnePeriod ==
    LET frame == Frame
    IN \A j \in {k \in DOMAIN frame : Placed(frame[k])} :
          Cardinality({i \in DOMAIN data : InCell(frame[j], data[i])}) = 1

\* the frame is the two observations of the example: 2020-01-05 with
\* Tavg 10 and 2020-01-20 with Tavg 14
ExampleFrame ==
    /\ Len(Frame) = 2
    /\ {<<Frame[i].date, Frame[i][Tavg]>> : i \in DOMAIN Frame} =
          {<<Cell(Ordinal(2020, 1, 5)), Cell(10)>>, <<Cell(Ordinal(2020, 1, 20)), Cell(14)>>}

ExampleRequest ==
    Aggregated /\ ExampleFrame /\ request.resample = <<"Monthly">> /\ request.groupby = None

\* C3 (as claimed): with a resample period every row of the series is dated
\* at the start of the period of the records folded into it: the Monday of
\* the week, the first of the month, of the quarter or of the year; the
\* example yields the one row (2020-01-01, 12).
PeriodStartLabels ==
    (Aggregated /\ request.resample # None) =>
       /\ \A i \in DOMAIN data : IsPeriodStart(request.resample, Val(data[i].date))
       /\ EveryRowInOnePeriod
       /\ RowsHoldPeriodMeans
       /\ ExampleRequest =>
             /\ Len(data) = 1
             /\ data[1].date = Cell(Ordinal(2020, 1, 1))
             /\ data[1][Tavg] = Cell(<<12, 1>>)

\* C3 (amended): with a resample period every row of the series is dated
\* at the end of the period of the records folded into it: the Sunday of
\* the week, the last day of the month, of the quarter or of the year (the
\* day itself for Daily); the example yields the one row (2020-01-31, 12).
PeriodEndLabels ==
    (Aggregated /\ request.resample # None) =>
       /\ \A i \in DOMAIN data : IsPeriodEnd(request.resample, Val(data[i].date))
       /\ EveryRowInOnePeriod
       /\ RowsHoldPeriodMeans
       /\ ExampleRequest =>
             /\ Len(data) = 1
             /\ data[1].date = Cell(Ordinal(2020, 1, 31))
             /\ data[1][Tavg] = Cell(<<12, 1>>)

\* the Monthly request of the example has been aggregated
PeriodEndLabelsWitness == ExampleRequest /\ Len(data) = 1

\* the frame rows of a series row that have a value in column c
Present(row, c) == LET frame == Frame IN {j \in CellRows(row) : ~IsNull(frame[j][c])}

\* C8: in each of the four branches, a cell with at least one record and
\* no value of a variable has a missing mean, and a cell with exactly one
\* value of the variable among its records has that value as its mean.
MeanOfMissing ==
    Aggregated =>
       LET frame == Frame
       IN \A i \in DOMAIN data :
             LET rows == CellRows(data[i])
             IN \A c \in NumericColumns :
                   LET present == {j \in rows : ~IsNull(frame[j][c])}
                   IN /\ (rows # {} /\ present = {}) => data[i][c] = NaN
                      /\ \A j \in present :
                            present = {j} => data[i][c] = Cell(<<Val(frame[j][c]), 1>>)

\* a cell of two or more records with exactly one Tavg value among them
MeanOfMissingWitness ==
    /\ Aggregated
    /\ \E i \in DOMAIN data :
          /\ Cardinality(CellRows(data[i])) >= 2
          /\ Cardinality(Present(data[i], Tavg)) = 1
          /\ ~IsNull(data[i][Tavg])

\* C2: for every resample and grouping choice each record handed to
\* show_timeseries lies in exactly one (group, time-bucket) cell of the
\* series; none is dropped, records with a missing province_name included.
PartitionComplete ==
    Aggregated =>
       LET frame == Frame
       IN \A j \in DOMAIN frame :
             Cardinality({i \in DOMAIN data : InCell(frame[j], data[i])}) = 1

\* the rows of the series with the given group key
SeriesOfKey(key) == LET Keep(row) == KeyOf(row) = key IN SelectSeq(data, Keep)

\* C4: with a grouping the summary holds a statistic set for every group
\* key, computed from the rows of that group only; without a grouping it
\* holds the one statistic set of the whole series.
SummaryPerGroup ==
    (Aggregated /\ error = "none") =>
       IF request.groupby = None THEN summary = <<Describe(data)>>
       ELSE \A key \in {KeyOf(data[i]) : i \in DOMAIN data} :
               \E k \in DOMAIN summary : summary[k] = Describe(SeriesOfKey(key))

\* C9: a request for any column the variable selector offers ends with a
\* series that holds the column or with an UnknownColumnError rejection,
\* never with another failure.
RequestServedOrRejected ==
    Aggregated =>
       \/ error = "none" /\ request.var[1] \in DataColumns(request.groupby)
       \/ error = "UnknownColumnError"

====
